---- MODULE Spec2Model ----
(***************************************************************************)
(* BackstageEcsStack (src/aws/aws/backstage.py): the construction of the   *)
(* stack's resource graph, one action per statement of __init__, followed  *)
(* by the provisioning engine materializing the finished graph in any      *)
(* order that respects its edges.                                          *)
(*                                                                         *)
(* A reference edge <<a, b>> is recorded when the source hands entity b,   *)
(* or an attribute of b, to the constructor or to a configuring method of  *)
(* entity a.  The container spec belongs to its task definition and the    *)
(* target group "ECS" to its listener, as in the spec's data model.        *)
(***************************************************************************)
EXTENDS Naturals, Sequences, FiniteSets

\* ---------------------------------------------------------------- bounds
\* The deployment contexts the constructor is invoked with: the stack id and
\* the optional env override (0 = no override) passed through **kwargs.
MaxStackIds == 2
MaxEnvs == 2

\* ------------------------------------------------------- logical names
Vpc == "BackstageVpc"
EcsSg == "EcsSecurityGroup"
AlbSg == "ALBSecurityGroup"
RdsSg == "RdsSecurityGroup"
Alb == "CustomALB"
Listener == "ALBListener"
Cluster == "BackstageCluster"
Bucket == "BackstageAssets"
DbCluster == "BackstageAuroraDB"
TaskRole == "BackstageTaskRole"
TaskExecutionRole == "BackstageTaskExecutionRole"
TaskDef == "BackstageTaskDef"
Container == "BackstageContainer"
Service == "BackstageService"
TargetGroup == "ECS"
Output == "LoadBalancerDNS"

\* The peer ec2.Peer.any_ipv4() and the protocol of ec2.Port.tcp(n).
AnyIpv4 == "0.0.0.0/0"
Tcp == "tcp"

\* ------------------------------------------------------ port literals
AlbIngressPort == 80
RdsIngressPort == 5432
ListenerPort == 80
ContainerPortMapping == 7007
TargetGroupPort == 80
TargetContainerPort == 7007

\* -------------------------------------------------------------- values
\* A property value is a literal or a token that resolves to an attribute of
\* another entity at deploy time.
Literal(s) == [kind |-> "literal", entity |-> "", value |-> s]
Token(e, a) == [kind |-> "token", entity |-> e, value |-> a]

VARIABLES
    ctx,          \* the deployment context: [id, env]
    pc,           \* number of statements of __init__ already executed
    raised,       \* an exception left __init__
    children,     \* the stack's child constructs, in declaration order
    refs,         \* reference edges <<from, to>>
    deps,         \* explicit ordering edges (node.add_dependency)
    secGroups,    \* security groups: [id, vpc, allowAllOutbound]
    ingress,      \* ingress rules: [sg, peer, protocol, port, description]
    egress,       \* egress rules, same shape
    loadBalancers,\* [id, vpc, internetFacing, securityGroup]
    listeners,    \* [id, loadBalancer, port, open]
    databases,    \* [id, username, database, securityGroups, ...]
    roles,        \* [id, principal, managedPolicies, actions, resources]
    taskDefs,     \* [id, cpu, memory, taskRole, executionRole, arch, os]
    containers,   \* [name, taskDef, image, environment, secrets, portMappings]
    services,     \* [id, cluster, taskDefinition, securityGroups, desiredCount]
    targets,      \* [listener, group, groupPort, service, containerName, containerPort]
    outputs,      \* [id, value]
    materialized, \* entities the provisioning engine has created
    registered    \* targets registered with their listener's target group

graph == <<children, refs, deps, secGroups, ingress, egress, loadBalancers,
           listeners, databases, roles, taskDefs, containers, services, targets, outputs>>
engine == <<materialized, registered>>
vars == <<ctx, pc, raised, graph, engine>>

\* A slip: the bucket declared before the cluster.
Program_BucketFirst ==
    << "vpc", "ecs_sg", "alb_sg", "alb_sg.add_ingress_rule", "rds_sg",
       "rds_sg.add_ingress_rule", "alb", "listener", "bucket", "cluster",
       "db_cluster", "task_role", "task_execution_role",
       "task_execution_role.add_to_policy", "task_definition", "container",
       "fargate_service", "listener.add_targets",
       "fargate_service.node.add_dependency", "CfnOutput" >>

\* The statements of __init__ in source order.
Program ==
    << "vpc", "ecs_sg", "alb_sg", "alb_sg.add_ingress_rule", "rds_sg",
       "rds_sg.add_ingress_rule", "alb", "listener", "cluster", "bucket",
       "db_cluster", "task_role", "task_execution_role",
       "task_execution_role.add_to_policy", "task_definition", "container",
       "fargate_service", "listener.add_targets",
       "fargate_service.node.add_dependency", "CfnOutput" >>

Contexts == [id : 1..MaxStackIds, env : 0..MaxEnvs]

Init ==
    /\ ctx \in Contexts
    /\ pc = 0
    /\ raised = FALSE
    /\ children = << >>
    /\ refs = {}
    /\ deps = {}
    /\ secGroups = {}
    /\ ingress = {}
    /\ egress = {}
    /\ loadBalancers = {}
    /\ listeners = {}
    /\ databases = {}
    /\ roles = {}
    /\ taskDefs = {}
    /\ containers = {}
    /\ services = {}
    /\ targets = {}
    /\ outputs = {}
    /\ materialized = {}
    /\ registered = {}

\* ------------------------------------------------------------- helpers
Declared == { children[i].id : i \in 1..Len(children) }
Finished == pc = Len(Program) /\ ~raised
AtStatement(s) == ~raised /\ pc < Len(Program) /\ Program[pc + 1] = s

\* Construct.__init__: the new construct becomes the last child of the stack.
Declare(id, type) == Append(children, [id |-> id, type |-> type])

\* SecurityGroup.add_ingress_rule: a rule equal to one already held, the
\* description apart, is not added again.
SameRule(a, b) ==
    a.sg = b.sg /\ a.peer = b.peer /\ a.protocol = b.protocol /\ a.port = b.port
AddIngressRule(rules, r) ==
    IF \E x \in rules : SameRule(x, r) THEN rules ELSE rules \cup {r}

\* SecurityGroup.add_egress_rule: ignored on a group that allows all outbound.
AddEgressRule(rules, r) ==
    IF \E g \in secGroups : g.id = r.sg /\ g.allowAllOutbound
    THEN rules ELSE rules \cup {r}

IngressOf(sg) == { r \in ingress : r.sg = sg }

\* Connections.allow_from / allow_to between two sets of security groups:
\* an ingress rule on every group of the receiving side, an egress rule on
\* every group of the sending side.
AllowFrom(rules, sgs, peers, port) ==
    rules \cup
    { r \in { [sg |-> s, peer |-> p, protocol |-> Tcp, port |-> port,
               description |-> "Load balancer to target"] : s \in sgs, p \in peers } :
        ~ \E x \in rules : SameRule(x, r) }
AllowTo(rules, sgs, peers, port) ==
    rules \cup
    { r \in { [sg |-> s, peer |-> p, protocol |-> Tcp, port |-> port,
               description |-> "Load balancer to target"] : s \in sgs, p \in peers } :
        AddEgressRule(rules, r) # rules }

SecurityGroupOf(lb) == (CHOOSE b \in loadBalancers : b.id = lb).securityGroup
SecurityGroupsOf(svc) == (CHOOSE s \in services : s.id = svc).securityGroups
PortOf(l) == (CHOOSE x \in listeners : x.id = l).port

\* The environment and the secrets handed to add_container.
ContainerEnvironment ==
    [n \in {"POSTGRES_HOST", "POSTGRES_USER", "POSTGRES_PORT", "AWS_S3_BUCKET", "BASE_URL"} |->
        CASE n = "POSTGRES_HOST" -> Token(DbCluster, "cluster_endpoint.hostname")
          [] n = "POSTGRES_USER" -> Literal("postgres")
          [] n = "POSTGRES_PORT" -> Token(DbCluster, "str(cluster_endpoint.port)")
          [] n = "AWS_S3_BUCKET" -> Token(Bucket, "bucket_name")
          [] n = "BASE_URL" -> Token(Alb, "http://{load_balancer_dns_name}")]
ContainerSecrets ==
    [n \in {"POSTGRES_PASSWORD"} |-> Token(DbCluster, "secret.password")]

\* The edges an entity gains from the values wired into it.
WiredEntities(from, env, secrets) ==
    { <<from, env[n].entity>> : n \in { m \in DOMAIN env : env[m].kind = "token" } }
    \cup { <<from, secrets[n].entity>> : n \in { m \in DOMAIN secrets : secrets[m].kind = "token" } }

\* fargate_service.load_balancer_target(container_name, container_port):
\* the service's task definition must hold a container of that name with a
\* port mapping for that port.
LoadBalancerTargetValid(svc, name, port) ==
    \E s \in services : \E c \in containers :
        /\ s.id = svc
        /\ c.taskDef = s.taskDefinition
        /\ c.name = name
        /\ port \in c.portMappings

\* A slip: traffic forwarded to the target group's port.
RoutedPort_GroupPort(t) == t.groupPort
\* The port traffic is forwarded to: the container port the target was
\* registered with (an awsvpc task is registered by address and port).
RoutedPort(t) == t.containerPort

\* All edges of the graph: references, explicit dependencies, and a security
\* group's ingress and egress rules whose peer is another security group.
Edges ==
    refs \cup deps \cup
    { <<r.sg, r.peer>> : r \in { x \in ingress \cup egress :
                                   \E g \in secGroups : g.id = x.peer } }

\* ---------------------------------------------------------- statements
\* vpc = ec2.Vpc(self, "BackstageVpc", max_azs=2)
DeclareVpc ==
    /\ AtStatement("vpc")
    /\ children' = Declare(Vpc, "ec2.Vpc")
    /\ pc' = pc + 1
    /\ UNCHANGED <<ctx, raised, refs, deps, secGroups, ingress, egress,
                   loadBalancers, listeners, databases, roles, taskDefs, containers,
                   services, targets, outputs, materialized, registered>>

\* ecs_sg = ec2.SecurityGroup(self, "EcsSecurityGroup", vpc=vpc, allow_all_outbound=True)
DeclareEcsSg ==
    /\ AtStatement("ecs_sg")
    /\ children' = Declare(EcsSg, "ec2.SecurityGroup")
    /\ secGroups' = secGroups \cup {[id |-> EcsSg, vpc |-> Vpc, allowAllOutbound |-> TRUE]}
    /\ refs' = refs \cup {<<EcsSg, Vpc>>}
    /\ pc' = pc + 1
    /\ UNCHANGED <<ctx, raised, deps, ingress, egress, loadBalancers, listeners,
                   databases, roles, taskDefs, containers, services, targets,
                   outputs, materialized, registered>>

\* alb_sg = ec2.SecurityGroup(self, "ALBSecurityGroup", vpc=vpc)
\* (allow_all_outbound is left at its default, True)
DeclareAlbSg ==
    /\ AtStatement("alb_sg")
    /\ children' = Declare(AlbSg, "ec2.SecurityGroup")
    /\ secGroups' = secGroups \cup {[id |-> AlbSg, vpc |-> Vpc, allowAllOutbound |-> TRUE]}
    /\ refs' = refs \cup {<<AlbSg, Vpc>>}
    /\ pc' = pc + 1
    /\ UNCHANGED <<ctx, raised, deps, ingress, egress, loadBalancers, listeners,
                   databases, roles, taskDefs, containers, services, targets,
                   outputs, materialized, registered>>

\* alb_sg.add_ingress_rule(ec2.Peer.any_ipv4(), ec2.Port.tcp(80), "Allow HTTP")
AddAlbIngressRule ==
    /\ AtStatement("alb_sg.add_ingress_rule")
    /\ ingress' = AddIngressRule(ingress,
           [sg |-> AlbSg, peer |-> AnyIpv4, protocol |-> Tcp,
            port |-> AlbIngressPort, description |-> "Allow HTTP"])
    /\ pc' = pc + 1
    /\ UNCHANGED <<ctx, raised, children, refs, deps, secGroups, egress,
                   loadBalancers, listeners, databases, roles, taskDefs, containers,
                   services, targets, outputs, materialized, registered>>

\* rds_sg = ec2.SecurityGroup(self, "RdsSecurityGroup", vpc=vpc, allow_all_outbound=True)
DeclareRdsSg ==
    /\ AtStatement("rds_sg")
    /\ children' = Declare(RdsSg, "ec2.SecurityGroup")
    /\ secGroups' = secGroups \cup {[id |-> RdsSg, vpc |-> Vpc, allowAllOutbound |-> TRUE]}
    /\ refs' = refs \cup {<<RdsSg, Vpc>>}
    /\ pc' = pc + 1
    /\ UNCHANGED <<ctx, raised, deps, ingress, egress, loadBalancers, listeners,
                   databases, roles, taskDefs, containers, services, targets,
                   outputs, materialized, registered>>

\* A slip: the rule opened to any IPv4 address instead of the service group.
AddRdsIngressRule_AnyIpv4 ==
    /\ AtStatement("rds_sg.add_ingress_rule")
    /\ ingress' = AddIngressRule(ingress,
           [sg |-> RdsSg, peer |-> AnyIpv4, protocol |-> Tcp,
            port |-> RdsIngressPort, description |-> "Allow ECS to connect to RDS"])
    /\ pc' = pc + 1
    /\ UNCHANGED <<ctx, raised, children, refs, deps, secGroups, egress,
                   loadBalancers, listeners, databases, roles, taskDefs, containers,
                   services, targets, outputs, materialized, registered>>

\* rds_sg.add_ingress_rule(ecs_sg, ec2.Port.tcp(5432), "Allow ECS to connect to RDS")
AddRdsIngressRule ==
    /\ AtStatement("rds_sg.add_ingress_rule")
    /\ ingress' = AddIngressRule(ingress,
           [sg |-> RdsSg, peer |-> EcsSg, protocol |-> Tcp,
            port |-> RdsIngressPort, description |-> "Allow ECS to connect to RDS"])
    /\ pc' = pc + 1
    /\ UNCHANGED <<ctx, raised, children, refs, deps, secGroups, egress,
                   loadBalancers, listeners, databases, roles, taskDefs, containers,
                   services, targets, outputs, materialized, registered>>

\* alb = elbv2.ApplicationLoadBalancer(self, "CustomALB", vpc=vpc,
\*           internet_facing=True, security_group=alb_sg)
DeclareAlb ==
    /\ AtStatement("alb")
    /\ children' = Declare(Alb, "elbv2.ApplicationLoadBalancer")
    /\ loadBalancers' = loadBalancers \cup
           {[id |-> Alb, vpc |-> Vpc, internetFacing |-> TRUE, securityGroup |-> AlbSg]}
    /\ refs' = refs \cup {<<Alb, Vpc>>, <<Alb, AlbSg>>}
    /\ pc' = pc + 1
    /\ UNCHANGED <<ctx, raised, deps, secGroups, ingress, egress, listeners,
                   databases, roles, taskDefs, containers, services, targets,
                   outputs, materialized, registered>>

\* listener = alb.add_listener("ALBListener", port=80, open=True)
\* open=True: the load balancer's security group allows the listener's port
\* from any IPv4 address ("Allow from anyone on port 80").
DeclareListener ==
    /\ AtStatement("listener")
    /\ children' = Declare(Listener, "elbv2.ApplicationListener")
    /\ listeners' = listeners \cup
           {[id |-> Listener, loadBalancer |-> Alb, port |-> ListenerPort, open |-> TRUE]}
    /\ refs' = refs \cup {<<Listener, Alb>>}
    /\ ingress' = AddIngressRule(ingress,
           [sg |-> SecurityGroupOf(Alb), peer |-> AnyIpv4, protocol |-> Tcp,
            port |-> ListenerPort, description |-> "Allow from anyone on port 80"])
    /\ pc' = pc + 1
    /\ UNCHANGED <<ctx, raised, deps, secGroups, egress, loadBalancers, databases,
                   roles, taskDefs, containers, services, targets, outputs,
                   materialized, registered>>

\* cluster = ecs.Cluster(self, "BackstageCluster", vpc=vpc)
DeclareCluster ==
    /\ AtStatement("cluster")
    /\ children' = Declare(Cluster, "ecs.Cluster")
    /\ refs' = refs \cup {<<Cluster, Vpc>>}
    /\ pc' = pc + 1
    /\ UNCHANGED <<ctx, raised, deps, secGroups, ingress, egress, loadBalancers,
                   listeners, databases, roles, taskDefs, containers, services,
                   targets, outputs, materialized, registered>>

\* bucket = s3.Bucket(self, "BackstageAssets", public_read_access=False)
DeclareBucket ==
    /\ AtStatement("bucket")
    /\ children' = Declare(Bucket, "s3.Bucket")
    /\ pc' = pc + 1
    /\ UNCHANGED <<ctx, raised, refs, deps, secGroups, ingress, egress,
                   loadBalancers, listeners, databases, roles, taskDefs, containers,
                   services, targets, outputs, materialized, registered>>

\* db_cluster = rds.DatabaseCluster(self, "BackstageAuroraDB", engine=..., security_groups=[rds_sg],
\*     credentials=rds.Credentials.from_generated_secret("postgres"),
\*     default_database_name="backstage", removal_policy=RemovalPolicy.DESTROY,
\*     instance_props=rds.InstanceProps(instance_type=..., vpc=vpc, vpc_subnets=...),
\*     serverless_v2_min_capacity=0.5, serverless_v2_max_capacity=4)
DeclareDbCluster ==
    /\ AtStatement("db_cluster")
    /\ children' = Declare(DbCluster, "rds.DatabaseCluster")
    /\ databases' = databases \cup
           {[id |-> DbCluster, engine |-> "aurora-postgres-13.12",
             securityGroups |-> {RdsSg}, username |-> "postgres",
             secret |-> "generated", database |-> "backstage",
             removalPolicy |-> "DESTROY", vpc |-> Vpc,
             subnetType |-> "PRIVATE_WITH_EGRESS"]}
    /\ refs' = refs \cup {<<DbCluster, RdsSg>>, <<DbCluster, Vpc>>}
    /\ pc' = pc + 1
    /\ UNCHANGED <<ctx, raised, deps, secGroups, ingress, egress, loadBalancers,
                   listeners, roles, taskDefs, containers, services, targets,
                   outputs, materialized, registered>>

\* task_role = iam.Role(self, "BackstageTaskRole",
\*     assumed_by=iam.ServicePrincipal("ecs-tasks.amazonaws.com"),
\*     managed_policies=[...from_aws_managed_policy_name("AmazonS3ReadOnlyAccess")])
DeclareTaskRole ==
    /\ AtStatement("task_role")
    /\ children' = Declare(TaskRole, "iam.Role")
    /\ roles' = roles \cup
           {[id |-> TaskRole, assumedBy |-> "ecs-tasks.amazonaws.com",
             managedPolicies |-> {"AmazonS3ReadOnlyAccess"},
             actions |-> {}, resources |-> {}]}
    /\ pc' = pc + 1
    /\ UNCHANGED <<ctx, raised, refs, deps, secGroups, ingress, egress,
                   loadBalancers, listeners, databases, taskDefs, containers,
                   services, targets, outputs, materialized, registered>>

\* task_execution_role = iam.Role(self, "BackstageTaskExecutionRole",
\*     assumed_by=iam.ServicePrincipal("ecs-tasks.amazonaws.com"))
DeclareTaskExecutionRole ==
    /\ AtStatement("task_execution_role")
    /\ children' = Declare(TaskExecutionRole, "iam.Role")
    /\ roles' = roles \cup
           {[id |-> TaskExecutionRole, assumedBy |-> "ecs-tasks.amazonaws.com",
             managedPolicies |-> {}, actions |-> {}, resources |-> {}]}
    /\ pc' = pc + 1
    /\ UNCHANGED <<ctx, raised, refs, deps, secGroups, ingress, egress,
                   loadBalancers, listeners, databases, taskDefs, containers,
                   services, targets, outputs, materialized, registered>>

\* task_execution_role.add_to_policy(iam.PolicyStatement(
\*     actions=["ecr:GetAuthorizationToken", "ecr:BatchCheckLayerAvailability",
\*              "ecr:GetDownloadUrlForLayer", "ecr:BatchGetImage"], resources=["*"]))
AddEcrPolicy ==
    /\ AtStatement("task_execution_role.add_to_policy")
    /\ roles' = { IF r.id = TaskExecutionRole
                  THEN [r EXCEPT !.actions = @ \cup
                            {"ecr:GetAuthorizationToken", "ecr:BatchCheckLayerAvailability",
                             "ecr:GetDownloadUrlForLayer", "ecr:BatchGetImage"},
                                 !.resources = @ \cup {"*"}]
                  ELSE r : r \in roles }
    /\ pc' = pc + 1
    /\ UNCHANGED <<ctx, raised, children, refs, deps, secGroups, ingress, egress,
                   loadBalancers, listeners, databases, taskDefs, containers,
                   services, targets, outputs, materialized, registered>>

\* task_definition = ecs.FargateTaskDefinition(self, "BackstageTaskDef",
\*     memory_limit_mib=1024, cpu=512, task_role=task_role,
\*     execution_role=task_execution_role,
\*     runtime_platform=ecs.RuntimePlatform(cpu_architecture=ARM64,
\*                                          operating_system_family=LINUX))
DeclareTaskDefinition ==
    /\ AtStatement("task_definition")
    /\ children' = Declare(TaskDef, "ecs.FargateTaskDefinition")
    /\ taskDefs' = taskDefs \cup
           {[id |-> TaskDef, memoryLimitMiB |-> 1024, cpu |-> 512,
             taskRole |-> TaskRole, executionRole |-> TaskExecutionRole,
             cpuArchitecture |-> "ARM64", operatingSystemFamily |-> "LINUX"]}
    /\ refs' = refs \cup {<<TaskDef, TaskRole>>, <<TaskDef, TaskExecutionRole>>}
    /\ pc' = pc + 1
    /\ UNCHANGED <<ctx, raised, deps, secGroups, ingress, egress, loadBalancers,
                   listeners, databases, roles, containers, services, targets,
                   outputs, materialized, registered>>

\* A slip: the password handed over as a plain environment variable.
AddContainer_PlainPassword ==
    /\ AtStatement("container")
    /\ containers' = containers \cup
           {[name |-> Container, taskDef |-> TaskDef,
             image |-> "975050238273.dkr.ecr.ap-south-1.amazonaws.com/backstage",
             logging |-> "Backstage",
             environment |-> [n \in DOMAIN ContainerEnvironment \cup {"POSTGRES_PASSWORD"} |->
                     IF n \in DOMAIN ContainerEnvironment THEN ContainerEnvironment[n]
                     ELSE Token(DbCluster, "secret.password")],
             secrets |-> ContainerSecrets,
             portMappings |-> {ContainerPortMapping}]}
    /\ refs' = refs \cup WiredEntities(TaskDef, ContainerEnvironment, ContainerSecrets)
    /\ pc' = pc + 1
    /\ UNCHANGED <<ctx, raised, children, deps, secGroups, ingress, egress,
                   loadBalancers, listeners, databases, roles, taskDefs, services,
                   targets, outputs, materialized, registered>>

\* container = task_definition.add_container("BackstageContainer", image=...,
\*     logging=ecs.LogDrivers.aws_logs(stream_prefix="Backstage"),
\*     environment={...}, secrets={...},
\*     port_mappings=[ecs.PortMapping(container_port=7007)])
\* The task definition gains a reference to every entity an environment
\* variable or a secret of its container is wired from.
AddContainer ==
    /\ AtStatement("container")
    /\ containers' = containers \cup
           {[name |-> Container, taskDef |-> TaskDef,
             image |-> "975050238273.dkr.ecr.ap-south-1.amazonaws.com/backstage",
             logging |-> "Backstage",
             environment |-> ContainerEnvironment,
             secrets |-> ContainerSecrets,
             portMappings |-> {ContainerPortMapping}]}
    /\ refs' = refs \cup WiredEntities(TaskDef, ContainerEnvironment, ContainerSecrets)
    /\ pc' = pc + 1
    /\ UNCHANGED <<ctx, raised, children, deps, secGroups, ingress, egress,
                   loadBalancers, listeners, databases, roles, taskDefs, services,
                   targets, outputs, materialized, registered>>

\* A slip: the service also handed the load balancer.
DeclareService_RefsAlb ==
    /\ AtStatement("fargate_service")
    /\ children' = Declare(Service, "ecs.FargateService")
    /\ services' = services \cup
           {[id |-> Service, cluster |-> Cluster, taskDefinition |-> TaskDef,
             securityGroups |-> {EcsSg}, desiredCount |-> 1,
             deploymentController |-> "ECS"]}
    /\ refs' = refs \cup {<<Service, Cluster>>, <<Service, TaskDef>>, <<Service, EcsSg>>, <<Service, Alb>>}
    /\ pc' = pc + 1
    /\ UNCHANGED <<ctx, raised, deps, secGroups, ingress, egress, loadBalancers,
                   listeners, databases, roles, taskDefs, containers, targets,
                   outputs, materialized, registered>>

\* fargate_service = ecs.FargateService(self, "BackstageService", cluster=cluster,
\*     task_definition=task_definition, security_groups=[ecs_sg], desired_count=1,
\*     deployment_controller=ecs.DeploymentController(type=ECS))
DeclareService ==
    /\ AtStatement("fargate_service")
    /\ children' = Declare(Service, "ecs.FargateService")
    /\ services' = services \cup
           {[id |-> Service, cluster |-> Cluster, taskDefinition |-> TaskDef,
             securityGroups |-> {EcsSg}, desiredCount |-> 1,
             deploymentController |-> "ECS"]}
    /\ refs' = refs \cup {<<Service, Cluster>>, <<Service, TaskDef>>, <<Service, EcsSg>>}
    /\ pc' = pc + 1
    /\ UNCHANGED <<ctx, raised, deps, secGroups, ingress, egress, loadBalancers,
                   listeners, databases, roles, taskDefs, containers, targets,
                   outputs, materialized, registered>>

\* A slip: the connection opened in the wrong direction, into the load balancer.
AttachTargets_Reversed ==
    /\ AtStatement("listener.add_targets")
    /\ IF LoadBalancerTargetValid(Service, Container, TargetContainerPort)
       THEN /\ targets' = targets \cup
                   {[listener |-> Listener, group |-> TargetGroup,
                     groupPort |-> TargetGroupPort, service |-> Service,
                     containerName |-> Container, containerPort |-> TargetContainerPort,
                     healthCheck |-> [path |-> "/", interval |-> 30, timeout |-> 5,
                                      healthyThresholdCount |-> 2,
                                      unhealthyThresholdCount |-> 5]]}
            /\ refs' = refs \cup {<<Listener, Service>>}
            /\ ingress' = AllowFrom(ingress, {SecurityGroupOf(Alb)}, SecurityGroupsOf(Service), TargetContainerPort)
            /\ egress' = AllowTo(egress, SecurityGroupsOf(Service), {SecurityGroupOf(Alb)}, TargetContainerPort)
            /\ pc' = pc + 1
            /\ raised' = raised
       ELSE /\ raised' = TRUE
            /\ UNCHANGED <<pc, targets, refs, ingress, egress>>
    /\ UNCHANGED <<ctx, children, deps, secGroups, loadBalancers, listeners,
                   databases, roles, taskDefs, containers, services, outputs,
                   materialized, registered>>

\* listener.add_targets("ECS", port=80,
\*     targets=[fargate_service.load_balancer_target(
\*                  container_name="BackstageContainer", container_port=7007)],
\*     health_check=elbv2.HealthCheck(path="/", interval=30 s, timeout=5 s,
\*                  healthy_threshold_count=2, unhealthy_threshold_count=5))
\* load_balancer_target raises unless the service's task definition has a
\* container of that name with a mapping for that port.  Registering the
\* target lets the load balancer's security group reach the service's
\* security groups on the container port ("Load balancer to target").
AttachTargets ==
    /\ AtStatement("listener.add_targets")
    /\ IF LoadBalancerTargetValid(Service, Container, TargetContainerPort)
       THEN /\ targets' = targets \cup
                   {[listener |-> Listener, group |-> TargetGroup,
                     groupPort |-> TargetGroupPort, service |-> Service,
                     containerName |-> Container, containerPort |-> TargetContainerPort,
                     healthCheck |-> [path |-> "/", interval |-> 30, timeout |-> 5,
                                      healthyThresholdCount |-> 2,
                                      unhealthyThresholdCount |-> 5]]}
            /\ refs' = refs \cup {<<Listener, Service>>}
            /\ ingress' = AllowFrom(ingress, SecurityGroupsOf(Service), {SecurityGroupOf(Alb)}, TargetContainerPort)
            /\ egress' = AllowTo(egress, {SecurityGroupOf(Alb)}, SecurityGroupsOf(Service), TargetContainerPort)
            /\ pc' = pc + 1
            /\ raised' = raised
       ELSE /\ raised' = TRUE
            /\ UNCHANGED <<pc, targets, refs, ingress, egress>>
    /\ UNCHANGED <<ctx, children, deps, secGroups, loadBalancers, listeners,
                   databases, roles, taskDefs, containers, services, outputs,
                   materialized, registered>>

\* A slip: the statement left out.
AddServiceDependency_Omitted ==
    /\ AtStatement("fargate_service.node.add_dependency")
    /\ deps' = deps
    /\ pc' = pc + 1
    /\ UNCHANGED <<ctx, raised, children, refs, secGroups, ingress, egress,
                   loadBalancers, listeners, databases, roles, taskDefs, containers,
                   services, targets, outputs, materialized, registered>>

\* A slip: receiver and argument exchanged.
AddServiceDependency_Reversed ==
    /\ AtStatement("fargate_service.node.add_dependency")
    /\ deps' = deps \cup {<<DbCluster, Service>>}
    /\ pc' = pc + 1
    /\ UNCHANGED <<ctx, raised, children, refs, secGroups, ingress, egress,
                   loadBalancers, listeners, databases, roles, taskDefs, containers,
                   services, targets, outputs, materialized, registered>>

\* fargate_service.node.add_dependency(db_cluster)
AddServiceDependency ==
    /\ AtStatement("fargate_service.node.add_dependency")
    /\ deps' = deps \cup {<<Service, DbCluster>>}
    /\ pc' = pc + 1
    /\ UNCHANGED <<ctx, raised, children, refs, secGroups, ingress, egress,
                   loadBalancers, listeners, databases, roles, taskDefs, containers,
                   services, targets, outputs, materialized, registered>>

\* CfnOutput(self, "LoadBalancerDNS", value=alb.load_balancer_dns_name)
DeclareOutput ==
    /\ AtStatement("CfnOutput")
    /\ children' = Declare(Output, "CfnOutput")
    /\ outputs' = outputs \cup {[id |-> Output, value |-> Token(Alb, "load_balancer_dns_name")]}
    /\ refs' = refs \cup {<<Output, Alb>>}
    /\ pc' = pc + 1
    /\ UNCHANGED <<ctx, raised, deps, secGroups, ingress, egress, loadBalancers,
                   listeners, databases, roles, taskDefs, containers, services,
                   targets, materialized, registered>>

\* The provisioning engine creates a declared entity once every entity it
\* has an edge to exists; it starts from the finished graph.
Materialize(e) ==
    /\ Finished
    /\ e \in Declared \ materialized
    /\ \A x \in Edges : x[1] = e => x[2] \in materialized
    /\ materialized' = materialized \cup {e}
    /\ UNCHANGED <<ctx, pc, raised, children, refs, deps, secGroups, ingress, egress,
                   loadBalancers, listeners, databases, roles, taskDefs, containers,
                   services, targets, outputs, registered>>

\* Once the listener and the service exist, the service's tasks are
\* registered with the listener's target group.
RegisterTarget(t) ==
    /\ t \in targets
    /\ t.listener \in materialized /\ t.service \in materialized
    /\ \A r \in registered : r.target # t
    /\ registered' = registered \cup
           {[target |-> t, listenerPort |-> PortOf(t.listener), port |-> RoutedPort(t)]}
    /\ UNCHANGED <<ctx, pc, raised, children, refs, deps, secGroups, ingress, egress,
                   loadBalancers, listeners, databases, roles, taskDefs, containers,
                   services, targets, outputs, materialized>>

\* ------------------------------------------------------- specification
Construct ==
    \/ DeclareVpc
    \/ DeclareEcsSg
    \/ DeclareAlbSg
    \/ AddAlbIngressRule
    \/ DeclareRdsSg
    \/ AddRdsIngressRule
    \/ DeclareAlb
    \/ DeclareListener
    \/ DeclareCluster
    \/ DeclareBucket
    \/ DeclareDbCluster
    \/ DeclareTaskRole
    \/ DeclareTaskExecutionRole
    \/ AddEcrPolicy
    \/ DeclareTaskDefinition
    \/ AddContainer
    \/ DeclareService
    \/ AttachTargets
    \/ AddServiceDependency
    \/ DeclareOutput

Apply ==
    \/ \E e \in Declared : Materialize(e)
    \/ \E t \in targets : RegisterTarget(t)

Next == Construct \/ Apply

Spec == Init /\ [][Next]_vars

\* __init__ runs to its end without suspension; the engine applies a plan
\* until nothing is left to create.
FairSpec == Spec /\ WF_vars(Construct) /\ WF_vars(Apply)

\* -------------------------------------------------------------- claims
OutEdges(e) == { x[2] : x \in { y \in Edges : y[1] = e } }

RECURSIVE ReachFrom(_, _)
ReachFrom(S, E) ==
    LET T == S \cup { x[2] : x \in { y \in E : y[1] \in S } }
    IN IF T = S THEN S ELSE ReachFrom(T, E)

Acyclic(E) == \A x \in E : x[1] \notin ReachFrom({x[2]}, E)

\* C1: every ingress rule of the database security group has the service
\* security group as its source and TCP 5432 as its port, never any-IPv4 and
\* never another group; once the database cluster uses the group it holds
\* exactly that one rule, and no later step adds another.
C1_RdsIngressOnlyFromService ==
    /\ \A r \in IngressOf("RdsSecurityGroup") :
          /\ r.peer = "EcsSecurityGroup"
          /\ r.peer # AnyIpv4
          /\ r.protocol = "tcp"
          /\ r.port = 5432
    /\ (\E d \in databases : "RdsSecurityGroup" \in d.securityGroups)
          => Cardinality(IngressOf("RdsSecurityGroup")) = 1

\* The database cluster, the service and the target attachment are all in
\* place and applied, and the database group holds its rule.
C1_Witness ==
    /\ Finished
    /\ IngressOf("RdsSecurityGroup") # {}
    /\ "BackstageAuroraDB" \in materialized
    /\ registered # {}

\* C2: the finished graph has an edge from the service to the database
\* cluster, and in every apply order the database cluster exists before the
\* service exists and before the service is registered as a listener target.
C2_DatabaseBeforeService ==
    /\ Finished => <<"BackstageService", "BackstageAuroraDB">> \in Edges
    /\ "BackstageService" \in materialized => "BackstageAuroraDB" \in materialized
    /\ \A r \in registered :
          r.target.service = "BackstageService" => "BackstageAuroraDB" \in materialized

\* The service has been created and registered with the listener.
C2_Witness ==
    /\ "BackstageService" \in materialized
    /\ \E r \in registered : r.target.service = "BackstageService"

\* C3: every ingress rule of the load-balancer security group is for TCP
\* port 80, the port of the listener, whether added by add_ingress_rule or by
\* the listener being open; no construction step adds a rule on another port.
C3_AlbIngressOnlyPublicPort ==
    /\ \A r \in IngressOf("ALBSecurityGroup") : r.protocol = "tcp" /\ r.port = 80
    /\ \A l \in listeners :
          /\ l.port = 80
          /\ l.open => \E r \in IngressOf(SecurityGroupOf(l.loadBalancer)) :
                          r.peer = AnyIpv4 /\ r.port = l.port

\* The graph is finished: listener, database, service and target attachment
\* have all been added and the load-balancer group still holds a rule.
C3_Witness ==
    /\ Finished
    /\ targets # {}
    /\ "BackstageAuroraDB" \in Declared
    /\ \E r \in IngressOf("ALBSecurityGroup") : r.description = "Allow HTTP"

C5_ResolvedAndAcyclic ==
    /\ [](/\ \A x \in Edges : x[1] \in Declared /\ x[2] \in Declared
          /\ Acyclic(Edges))
    /\ [][\A x \in Edges' \ Edges : x[2] \in Declared]_vars

\* The two late edges (listener to service, service to database cluster)
\* are in the finished graph, and an apply order has created every entity.
C5_Witness ==
    /\ Finished
    /\ materialized = Declared
    /\ <<"ALBListener", "BackstageService">> \in Edges
    /\ <<"BackstageService", "BackstageAuroraDB">> \in Edges

\* The order of declaration the spec states.
ExpectedDeclarations ==
    << "BackstageVpc", "EcsSecurityGroup", "ALBSecurityGroup", "RdsSecurityGroup",
       "CustomALB", "ALBListener", "BackstageCluster", "BackstageAssets",
       "BackstageAuroraDB", "BackstageTaskRole", "BackstageTaskExecutionRole",
       "BackstageTaskDef", "BackstageService", "LoadBalancerDNS" >>

\* C7: the entities are declared once each in the stated order, the
\* undeclared steps (container spec, target attachment, ordering edge, output)
\* fall in their stated places, every change of the graph is one step
\* forward, the construction ends, and the finished graph never changes.
C7_FixedOrder ==
    /\ [](/\ Len(children) <= Len(ExpectedDeclarations)
          /\ \A i \in 1..Len(children) : children[i].id = ExpectedDeclarations[i]
          /\ "CustomALB" \in Declared => IngressOf("RdsSecurityGroup") # {}
          /\ containers # {} => "BackstageTaskDef" \in Declared
          /\ "BackstageService" \in Declared => containers # {}
          /\ targets # {} => "BackstageService" \in Declared
          /\ deps # {} => targets # {}
          /\ outputs # {} => deps # {})
    /\ [][/\ graph' # graph => pc' = pc + 1
          /\ Finished => graph' = graph]_vars
    /\ <>[]Finished

\* The construction has run to its end.
C7_Witness ==
    /\ Finished
    /\ Len(children) = Len(ExpectedDeclarations)
    /\ outputs # {}
    /\ materialized = {}

\* C9: the container's plain environment holds exactly host, user, port,
\* bucket name and base URL; the password is held only as a secret wired
\* from the database cluster's generated secret, field password; the plain
\* user equals the user name of the cluster's generated credentials.
C9_ContainerEnvironment ==
    /\ "BackstageService" \in Declared => containers # {}
    /\ \A c \in containers :
          /\ DOMAIN c.environment =
                {"POSTGRES_HOST", "POSTGRES_USER", "POSTGRES_PORT",
                 "AWS_S3_BUCKET", "BASE_URL"}
          /\ DOMAIN c.secrets = {"POSTGRES_PASSWORD"}
          /\ c.secrets["POSTGRES_PASSWORD"] =
                [kind |-> "token", entity |-> "BackstageAuroraDB", value |-> "secret.password"]
          /\ \A n \in DOMAIN c.environment :
                c.environment[n] # c.secrets["POSTGRES_PASSWORD"]
          /\ c.environment["POSTGRES_HOST"].entity = "BackstageAuroraDB"
          /\ c.environment["POSTGRES_PORT"].entity = "BackstageAuroraDB"
          /\ c.environment["AWS_S3_BUCKET"].entity = "BackstageAssets"
          /\ c.environment["BASE_URL"].entity = "CustomALB"
          /\ c.environment["POSTGRES_USER"].kind = "literal"
          /\ \E d \in databases :
                /\ d.id = "BackstageAuroraDB"
                /\ d.secret = "generated"
                /\ c.environment["POSTGRES_USER"].value = d.username

\* The container spec has been added to the task definition.
C9_Witness ==
    /\ \E c \in containers : c.name = "BackstageContainer" /\ c.taskDef = "BackstageTaskDef"
    /\ \E d \in databases : d.username = "postgres"

\* C10 as stated: in the finished graph the task definition's edges go to
\* the two roles, the database cluster and the bucket and nowhere else; the
\* service's go to cluster, task definition, service security group and
\* database cluster, the last an ordering-only edge.
C10_AsStated ==
    Finished =>
        /\ OutEdges("BackstageTaskDef") =
              {"BackstageTaskRole", "BackstageTaskExecutionRole",
               "BackstageAuroraDB", "BackstageAssets"}
        /\ OutEdges("BackstageService") =
              {"BackstageCluster", "BackstageTaskDef", "EcsSecurityGroup",
               "BackstageAuroraDB"}
        /\ <<"BackstageService", "BackstageAuroraDB">> \in deps \ refs

\* C10 amended: the task definition's edges also reach the load balancer,
\* whose DNS name the container's BASE_URL is built from.
C10_TaskDefAndServiceEdges ==
    Finished =>
        /\ OutEdges("BackstageTaskDef") =
              {"BackstageTaskRole", "BackstageTaskExecutionRole",
               "BackstageAuroraDB", "BackstageAssets", "CustomALB"}
        /\ OutEdges("BackstageService") =
              {"BackstageCluster", "BackstageTaskDef", "EcsSecurityGroup",
               "BackstageAuroraDB"}
        /\ <<"BackstageService", "BackstageAuroraDB">> \in deps \ refs

\* The finished graph, with the container's BASE_URL wired from the load
\* balancer.
C10_Witness ==
    /\ Finished
    /\ \E c \in containers : c.environment["BASE_URL"].entity = "CustomALB"
    /\ <<"BackstageTaskDef", "CustomALB">> \in refs

====
